---- MODULE Spec2Model ----
(***************************************************************************)
(* Model of the accounts app: the registration endpoint (views.register    *)
(* with UserRegistrationSerializer) and the login endpoint (views.login),  *)
(* running on a pool of request workers that share one identity store (the *)
(* auth_user table behind django.contrib.auth.models.User).                *)
(*                                                                         *)
(* Strings are sequences of characters.  A request body is a function from *)
(* the keys it carries to their strings, so that a missing key, an empty   *)
(* string and a non-empty string stay three different inputs.              *)
(***************************************************************************)
EXTENDS Integers, Sequences, FiniteSets, Bags

\* ------------------------------------------------------------------ bounds

\* Number of request workers, so of requests handled at the same time.
NumWorkers == 2

\* Cap on the number of rows of the identity store.
MaxRecords == 3

\* ------------------------------------------------------- program constants

\* serializers.py:14, min_length=8
MinPasswordLength == 8

\* max_length of User.username, which the serializer's Meta takes over
MaxUsernameLength == 150

\* ------------------------------------------------------------- characters

Whitespace == {" "}

\* "FULLWIDTH_A" stands for U+FF41, a letter whose NFKC form is "a".
WordChars == {"a", "l", "b", "o", "FULLWIDTH_A"}

UsernamePunctuation == {".", "@", "+", "-"}

\* str.strip(): leading and trailing whitespace removed.
RECURSIVE LStrip(_)
LStrip(s) ==
    IF s # <<>> /\ Head(s) \in Whitespace THEN LStrip(Tail(s)) ELSE s

RECURSIVE RStrip(_)
RStrip(s) ==
    IF s # <<>> /\ s[Len(s)] \in Whitespace
    THEN RStrip(SubSeq(s, 1, Len(s) - 1))
    ELSE s

Strip(s) == RStrip(LStrip(s))

\* unicodedata.normalize("NFKC", .) on one character.
NormChar(c) == IF c = "FULLWIDTH_A" THEN "a" ELSE c

\* AbstractBaseUser.normalize_username, applied by create_user.
normalize_username(s) == [i \in DOMAIN s |-> NormChar(s[i])]

\* ------------------------------------------------------------------ inputs

Alice == <<"a", "l">>
Bob == <<"b", "o">>

UsernameInputs ==
    { <<>>, Alice, Bob, <<" ">> \o Alice, <<"FULLWIDTH_A", "l">>, <<"a", "!">> }

GoodPassword == <<"p", "a", "s", "s", "w", "o", "r", "d">>
OtherPassword == <<"p", "a", "s", "s", "w", "o", "r", "t">>
ShortPassword == <<"p", "a", "s", "s", "w", "o", "r">>

PasswordInputs ==
    { <<>>, ShortPassword, GoodPassword, OtherPassword,
      <<" ">> \o GoodPassword, <<" ">> \o ShortPassword }

Has(data, key) == key \in DOMAIN data

EmptyBody == [k \in {} |-> <<>>]

\* request.data: any subset of the two keys may be present.
AllBodies ==
    [username : UsernameInputs, password : PasswordInputs]
        \cup [username : UsernameInputs]
        \cup [password : PasswordInputs]
        \cup {EmptyBody}

\* The bodies the requests are drawn from: every username input with the
\* reference password, every password input with the reference username,
\* each key missing in turn, and the empty body.
Bodies ==
    { d \in AllBodies :
        \/ d = EmptyBody
        \/ Has(d, "username") /\ d.username = Alice
        \/ Has(d, "password") /\ d.password = GoodPassword }

\* ---------------------------------------------------------- identity store

\* The rows of auth_user: [id, username, password], oldest first.

\* A query that never finds the row.
UsernameExists_never(st, value) == FALSE

\* User.objects.filter(username=value).exists()
UsernameExists(st, value) == \E i \in DOMAIN st : st[i].username = value

\* django.contrib.auth.hashers.make_password: an injective, tagged encoding.
make_password(raw) == <<"pbkdf2_sha256$">> \o raw

\* User.check_password(raw)
check_password(raw, encoded) == encoded = make_password(raw)

\* The INSERT on a table without the UNIQUE constraint.
InsertUser_unconstrained(st, row) ==
    [raised |-> FALSE, store |-> Append(st, row), created |-> <<row>>]

\* INSERT OR REPLACE: the row holding the username is deleted first.
InsertUser_replace(st, row) ==
    [raised |-> FALSE,
     store |-> Append(SelectSeq(st, LAMBDA r : r.username # row.username), row),
     created |-> <<row>>]

\* INSERT of one row; auth_user.username carries a UNIQUE constraint
\* (User.username is unique=True), so a second row with the same username
\* raises IntegrityError and the table is left as it was.
InsertUser(st, row) ==
    IF UsernameExists(st, row.username)
    THEN [raised |-> TRUE, store |-> st, created |-> <<>>]
    ELSE [raised |-> FALSE, store |-> Append(st, row), created |-> <<row>>]

\* UserManager.create_user(username, password): normalise the username,
\* hash the password, save.
create_user(st, username, password) ==
    InsertUser(st, [id |-> Len(st) + 1,
                    username |-> normalize_username(username),
                    password |-> make_password(password)])

\* The password compared with the stored value as it is.
authenticate_plain(st, username, password) ==
    LET found == SelectSeq(st, LAMBDA r : r.username = username)
    IN  IF found # <<>> /\ found[1].password = password
        THEN <<found[1]>>
        ELSE <<>>

\* ModelBackend.authenticate: the user with exactly this username, if the
\* password checks; <<>> stands for None.
authenticate(st, username, password) ==
    LET found == SelectSeq(st, LAMBDA r : r.username = username)
    IN  IF found # <<>> /\ check_password(password, found[1].password)
        THEN <<found[1]>>
        ELSE <<>>

\* RefreshToken.for_user(user): both tokens carry the user's id.
for_user(user) ==
    [refresh |-> <<"jwt", "refresh", user.id>>,
     access |-> <<"jwt", "access", user.id>>]

\* -------------------------------------------------------------- serializer

MsgRequired == "This field is required."
MsgBlank == "This field may not be blank."
MsgMinLength == "Ensure this field has at least 8 characters."
MsgMaxLength == "Ensure this field has no more than 150 characters."
MsgInvalidUsername == "Enter a valid username."
MsgUnique == "A user with that username already exists."
MsgExists == "Username already exists."

\* UnicodeUsernameValidator: ^[\w.@+-]+\Z
UsernameRegexOK(v) ==
    /\ Len(v) >= 1
    /\ \A i \in DOMAIN v : v[i] \in WordChars \cup UsernamePunctuation

\* CharField.run_validation on the username field the ModelSerializer builds
\* from User.username: required, not blank, trimmed, then all validators of
\* the field (format, max_length, UniqueValidator) collected.
UsernameFieldErrors(data, st) ==
    IF ~Has(data, "username") THEN {MsgRequired}
    ELSE IF Strip(data.username) = <<>> THEN {MsgBlank}
    ELSE LET v == Strip(data.username)
         IN  (IF UsernameRegexOK(v) THEN {} ELSE {MsgInvalidUsername})
             \cup (IF Len(v) > MaxUsernameLength THEN {MsgMaxLength} ELSE {})
             \cup (IF UsernameExists(st, v) THEN {MsgUnique} ELSE {})

\* The minimum length taken one too low.
PasswordFieldErrors_offbyone(data) ==
    IF ~Has(data, "password") THEN {MsgRequired}
    ELSE IF Strip(data.password) = <<>> THEN {MsgBlank}
    ELSE IF Len(Strip(data.password)) < MinPasswordLength - 1 THEN {MsgMinLength}
    ELSE {}

\* password = CharField(write_only=True, min_length=8); trim_whitespace is
\* left at its default (True), so the length is that of the trimmed value.
PasswordFieldErrors(data) ==
    IF ~Has(data, "password") THEN {MsgRequired}
    ELSE IF Strip(data.password) = <<>> THEN {MsgBlank}
    ELSE IF Len(Strip(data.password)) < MinPasswordLength THEN {MsgMinLength}
    ELSE {}

\* UserRegistrationSerializer.validate_username(value)
validate_username(value, st) ==
    IF UsernameExists(st, value) THEN {MsgExists} ELSE {}

\* serializer.validated_data: the fields' to_internal_value (trimmed).
validated_data(data) ==
    [username |-> Strip(data.username), password |-> Strip(data.password)]

\* UserRegistrationSerializer.create(validated_data)
create(st, vd) == create_user(st, vd.username, vd.password)

\* serializer.errors: only the fields that have errors.
ErrorMap(uerrs, perrs) ==
    LET e == [username |-> uerrs, password |-> perrs]
    IN  [f \in {g \in {"username", "password"} : e[g] # {}} |-> e[f]]

\* ------------------------------------------------------------------- views

HTTP_200_OK == 200
HTTP_201_CREATED == 201
HTTP_400_BAD_REQUEST == 400
HTTP_401_UNAUTHORIZED == 401

NoResponse == [status |-> 0, body |-> <<>>, created |-> <<>>, lookups |-> 0]

\* register, serializer invalid
RegisterInvalid(uerrs, perrs) ==
    [status |-> HTTP_400_BAD_REQUEST, body |-> ErrorMap(uerrs, perrs),
     created |-> <<>>, lookups |-> 0]

\* register, after serializer.save(): 201, or the IntegrityError that save()
\* raised leaves the view unhandled and the request ends as a server error.
RegisterSaved(res) ==
    IF res.raised
    THEN [status |-> 500,
          body |-> [exception |-> "IntegrityError"],
          created |-> <<>>, lookups |-> 0]
    ELSE [status |-> HTTP_201_CREATED,
          body |-> [message |-> "User registered successfully"],
          created |-> res.created, lookups |-> 0]

\* request.data.get(key) is truthy
Truthy(data, key) == Has(data, key) /\ data[key] # <<>>

\* A login that tells an unknown username from a wrong password.
login_enumerating(data, st) ==
    IF ~Truthy(data, "username") \/ ~Truthy(data, "password")
    THEN [status |-> HTTP_400_BAD_REQUEST,
          body |-> [error |-> "Username and password are required"],
          created |-> <<>>, lookups |-> 0]
    ELSE LET user == authenticate(st, data.username, data.password)
         IN  IF user # <<>>
             THEN [status |-> HTTP_200_OK,
                   body |-> for_user(user[1]),
                   created |-> <<>>, lookups |-> 1]
             ELSE IF \E i \in DOMAIN st : st[i].username = data.username
             THEN [status |-> HTTP_401_UNAUTHORIZED,
                   body |-> [error |-> "Invalid credentials"],
                   created |-> <<>>, lookups |-> 1]
             ELSE [status |-> HTTP_401_UNAUTHORIZED,
                   body |-> [error |-> "User not found"],
                   created |-> <<>>, lookups |-> 1]

\* A login that authenticates before it looks at the fields.
login_lookup_first(data, st) ==
    LET user == IF Has(data, "username") /\ Has(data, "password")
                THEN authenticate(st, data.username, data.password)
                ELSE <<>>
    IN  IF ~Truthy(data, "username") \/ ~Truthy(data, "password")
        THEN [status |-> HTTP_400_BAD_REQUEST,
              body |-> [error |-> "Username and password are required"],
              created |-> <<>>, lookups |-> 1]
        ELSE IF user # <<>>
        THEN [status |-> HTTP_200_OK,
              body |-> for_user(user[1]),
              created |-> <<>>, lookups |-> 1]
        ELSE [status |-> HTTP_401_UNAUTHORIZED,
              body |-> [error |-> "Invalid credentials"],
              created |-> <<>>, lookups |-> 1]

\* views.login; lookups counts the calls of authenticate.
login(data, st) ==
    IF ~Truthy(data, "username") \/ ~Truthy(data, "password")
    THEN [status |-> HTTP_400_BAD_REQUEST,
          body |-> [error |-> "Username and password are required"],
          created |-> <<>>, lookups |-> 0]
    ELSE LET user == authenticate(st, data.username, data.password)
         IN  IF user # <<>>
             THEN [status |-> HTTP_200_OK,
                   body |-> for_user(user[1]),
                   created |-> <<>>, lookups |-> 1]
             ELSE [status |-> HTTP_401_UNAUTHORIZED,
                   body |-> [error |-> "Invalid credentials"],
                   created |-> <<>>, lookups |-> 1]

\* ----------------------------------------------------------- state machine

VARIABLES
    store,       \* the identity store: sequence of rows
    requests,    \* bag of the requests the workers hold, each a record
                 \*   kind: "register" or "login"
                 \*   data: the request body
                 \*   pc:   "validate_username", "save" or "done"
                 \*   resp: the response, once pc = "done"
                 \*   seen: what held of the store when the request arrived
    registered   \* the <<username, password>> pairs, as sent, answered 201

vars == <<store, requests, registered>>

\* What holds of the store when a request with this body arrives.
Observe(data) ==
    [existed |-> /\ Has(data, "username")
                 /\ \E i \in DOMAIN store : store[i].username = data.username,
     registered |-> /\ Has(data, "username")
                    /\ Has(data, "password")
                    /\ <<data.username, data.password>> \in registered]

Held == BagToSet(requests)

Accept(r) == requests' = requests (+) SetToBag({r})

Step(r, r2) == requests' = (requests (-) SetToBag({r})) (+) SetToBag({r2})

Done(r, response) == [r EXCEPT !.pc = "done", !.resp = response]

Init ==
    /\ store = <<>>
    /\ requests = EmptyBag
    /\ registered = {}

\* register: serializer.is_valid() up to and including the username field's
\* own validators (the UniqueValidator's query reads the store).  When the
\* field fails, validate_username is skipped, the password field is still
\* validated, and the view answers 400.
RegisterBegin(data) ==
    /\ BagCardinality(requests) < NumWorkers
    /\ Len(store) < MaxRecords
    /\ LET uerrs == UsernameFieldErrors(data, store)
           r == [kind |-> "register", data |-> data, pc |-> "validate_username",
                 resp |-> NoResponse, seen |-> Observe(data)]
       IN  IF uerrs # {}
           THEN Accept(Done(r, RegisterInvalid(uerrs, PasswordFieldErrors(data))))
           ELSE Accept(r)
    /\ UNCHANGED <<store, registered>>

\* register: validate_username (a second query), the password field, and the
\* outcome of is_valid().
RegisterValidate(r) ==
    /\ r.pc = "validate_username"
    /\ LET uerrs == validate_username(Strip(r.data.username), store)
           perrs == PasswordFieldErrors(r.data)
       IN  IF uerrs # {} \/ perrs # {}
           THEN Step(r, Done(r, RegisterInvalid(uerrs, perrs)))
           ELSE Step(r, [r EXCEPT !.pc = "save"])
    /\ UNCHANGED <<store, registered>>

\* register: serializer.save() and the response.
RegisterSave(r) ==
    /\ r.pc = "save"
    /\ LET res == create(store, validated_data(r.data))
       IN  /\ store' = res.store
           /\ Step(r, Done(r, RegisterSaved(res)))
           /\ registered' =
                IF res.raised THEN registered
                ELSE registered \cup {<<r.data.username, r.data.password>>}

\* login: the whole view; authenticate is its only access to the store.
Login(data) ==
    /\ BagCardinality(requests) < NumWorkers
    /\ Accept([kind |-> "login", data |-> data, pc |-> "done",
               resp |-> login(data, store), seen |-> Observe(data)])
    /\ UNCHANGED <<store, registered>>

\* The response is sent and the worker is free for the next request.
Respond(r) ==
    /\ r.pc = "done"
    /\ requests' = requests (-) SetToBag({r})
    /\ UNCHANGED <<store, registered>>

Next ==
    \/ \E data \in Bodies : RegisterBegin(data)
    \/ \E r \in Held : RegisterValidate(r)
    \/ \E r \in Held : RegisterSave(r)
    \/ \E data \in Bodies : Login(data)
    \/ \E r \in Held : Respond(r)

Spec == Init /\ [][Next]_vars

TypeOK ==
    /\ Len(store) <= MaxRecords
    /\ BagCardinality(requests) <= NumWorkers
    /\ \A r \in Held : r.pc \in {"validate_username", "save", "done"}

\* ------------------------------------------------------------- properties

Registrations == {r \in Held : r.kind = "register" /\ r.pc = "done"}

Logins == {r \in Held : r.kind = "login" /\ r.pc = "done"}

\* The row of the store with this username has this password.
RowMatches(username, password) ==
    \E i \in DOMAIN store :
        /\ store[i].username = username
        /\ store[i].password = make_password(password)

\* C1: in every reachable state, whatever the interleaving of the
\* registrations' validation and creation steps, no two rows of the
\* identity store share a username.
C1_UniqueUsernames ==
    \A i, j \in DOMAIN store :
        i # j => store[i].username # store[j].username

\* Two registrations raced for one username: one row was created and the
\* other registration, which had passed validation, was stopped at the INSERT.
C1_Witness ==
    /\ Len(store) >= 1
    /\ \E r \in Registrations : r.resp.status = 500 /\ ~r.seen.existed

\* C2: every finished registration request was answered 201 or 400.
C2_OnlyCreatedOrBadRequest ==
    \A r \in Registrations :
        r.resp.status \in {HTTP_201_CREATED, HTTP_400_BAD_REQUEST}

\* C3: a registration whose username (in the format the field accepts) was
\* not in the store and whose password has 8 or more characters is answered
\* 201 and created exactly one row, with the requested username and a stored
\* credential other than the plaintext password.
C3_FreshRegistrationCreates ==
    \A r \in Registrations :
        ( /\ Has(r.data, "username")
          /\ Has(r.data, "password")
          /\ UsernameRegexOK(r.data.username)
          /\ ~r.seen.existed
          /\ Len(r.data.password) >= MinPasswordLength )
        => /\ r.resp.status = HTTP_201_CREATED
           /\ Len(r.resp.created) = 1
           /\ r.resp.created[1].username = r.data.username
           /\ r.resp.created[1].password # r.data.password

\* C4: a registration whose username was already in the store is answered
\* 400 with an 'already exists' error on the username field and creates no
\* row, whatever its password.
C4_ExistingUsernameRejected ==
    \A r \in Held :
        (r.kind = "register" /\ r.seen.existed)
        => /\ r.pc = "done"
           /\ r.resp.status = HTTP_400_BAD_REQUEST
           /\ "username" \in DOMAIN r.resp.body
           /\ r.resp.body.username \cap {MsgUnique, MsgExists} # {}
           /\ r.resp.created = <<>>

C4_Witness ==
    \E r \in Registrations :
        /\ r.seen.existed
        /\ r.resp.status = HTTP_400_BAD_REQUEST
        /\ Has(r.data, "password")
        /\ Len(r.data.password) >= MinPasswordLength

\* C5: a registration whose password has fewer than 8 characters never
\* reaches the creation step, is answered 400 and creates no row, whether
\* its username is fresh or existing.
C5_ShortPasswordRejected ==
    \A r \in Held :
        ( /\ r.kind = "register"
          /\ Has(r.data, "password")
          /\ Len(r.data.password) < MinPasswordLength )
        => /\ r.pc # "save"
           /\ r.pc = "done" => /\ r.resp.status = HTTP_400_BAD_REQUEST
                               /\ r.resp.created = <<>>

\* A short password sent with a fresh, well-formed username was rejected for
\* its length alone.
C5_Witness ==
    \E r \in Registrations :
        /\ Has(r.data, "password")
        /\ r.data.password = ShortPassword
        /\ ~r.seen.existed
        /\ r.resp.status = HTTP_400_BAD_REQUEST
        /\ DOMAIN r.resp.body = {"password"}

\* C6: a login carrying the username of a row of the store and the password
\* that row's credential was made from is answered 200 with a non-empty
\* access token and a non-empty refresh token, both issued for that row's id.
C6_CorrectLoginSucceeds ==
    \A r \in Logins :
        \A i \in DOMAIN store :
            ( /\ Has(r.data, "username")
              /\ Has(r.data, "password")
              /\ r.seen.existed
              /\ store[i].username = r.data.username
              /\ store[i].password = make_password(r.data.password) )
            => /\ r.resp.status = HTTP_200_OK
               /\ DOMAIN r.resp.body = {"access", "refresh"}
               /\ Len(r.resp.body.access) > 0
               /\ Len(r.resp.body.refresh) > 0
               /\ r.resp.body.access = for_user(store[i]).access
               /\ r.resp.body.refresh = for_user(store[i]).refresh

C6_Witness ==
    \E r \in Logins :
        /\ r.resp.status = HTTP_200_OK
        /\ r.seen.existed
        /\ RowMatches(r.data.username, r.data.password)

\* C7: two logins with non-empty username and password, one naming a
\* username that was not in the store and one naming an existing username
\* with a wrong password, get the same response: 401 with the same
\* 'Invalid credentials' body.
C7_NonEnumeration ==
    \A r1, r2 \in Logins :
        ( /\ Truthy(r1.data, "username") /\ Truthy(r1.data, "password")
          /\ Truthy(r2.data, "username") /\ Truthy(r2.data, "password")
          /\ ~r1.seen.existed
          /\ r2.seen.existed
          /\ ~RowMatches(r2.data.username, r2.data.password) )
        => /\ r1.resp.status = HTTP_401_UNAUTHORIZED
           /\ r2.resp.status = HTTP_401_UNAUTHORIZED
           /\ r1.resp.body = [error |-> "Invalid credentials"]
           /\ r1.resp.body = r2.resp.body

C7_Witness ==
    \E r1, r2 \in Logins :
        /\ Truthy(r1.data, "username") /\ Truthy(r1.data, "password")
        /\ Truthy(r2.data, "username") /\ Truthy(r2.data, "password")
        /\ ~r1.seen.existed
        /\ r2.seen.existed
        /\ ~RowMatches(r2.data.username, r2.data.password)
        /\ r1.resp.status = HTTP_401_UNAUTHORIZED

\* C8: a login in which username or password is absent or empty is answered
\* 400 'Username and password are required' without any call of
\* authenticate, also when the username it names exists.
C8_MissingFieldsNoLookup ==
    \A r \in Logins :
        (~Truthy(r.data, "username") \/ ~Truthy(r.data, "password"))
        => /\ r.resp.status = HTTP_400_BAD_REQUEST
           /\ r.resp.body = [error |-> "Username and password are required"]
           /\ r.resp.lookups = 0

C8_Witness ==
    \E r \in Logins :
        /\ r.seen.existed
        /\ ~Truthy(r.data, "password")
        /\ r.resp.status = HTTP_400_BAD_REQUEST

\* The requests that finished, or arrived and finished, in this step.
NewlyDone ==
    {r \in BagToSet(requests') :
        r.pc = "done" /\ CopiesIn(r, requests') > CopiesIn(r, requests)}

\* C9: no step mutates or deletes a row: after any step every row of the
\* store is still there, unchanged and in its place; a step in which a login
\* is answered (200, 400 or 401) leaves the whole store as it was; and the
\* store changes only by the one row a registration answered 201 has created.
C9_RecordsNeverChange ==
    [][ /\ Len(store') >= Len(store)
        /\ \A i \in DOMAIN store : store'[i] = store[i]
        /\ \A r \in NewlyDone : r.kind = "login" => store' = store
        /\ store' # store =>
             \E r \in NewlyDone :
                /\ r.kind = "register"
                /\ r.resp.status = HTTP_201_CREATED
                /\ store' = store \o r.resp.created ]_vars

\* A second registration for a username that has a row reached the INSERT
\* (it was stopped there), and a later login was served from the store.
C9_Witness ==
    /\ Len(store) >= 1
    /\ \E r \in Registrations : r.resp.status = 500
    /\ \E r \in Logins : r.resp.status = HTTP_200_OK

\* C10: once a registration with credentials (u, p) was answered 201, a
\* login with exactly the same (u, p) is answered 200.
C10_RegisterThenLogin ==
    \A r \in Logins :
        r.seen.registered => r.resp.status = HTTP_200_OK

====
